---------------------------- MODULE Spec2Model ----------------------------
(***************************************************************************)
(* chat-splitter: ChatSplitter::split and the two-stage position search    *)
(* of src/src/lib.rs, driven the way examples/chat.rs drives it.           *)
(*                                                                         *)
(* A message is represented by the number of prompt tokens the tokenizer   *)
(* counts for it (always at least one: every message carries its framing   *)
(* and role tokens).  The estimator is the call                            *)
(*   tiktoken_rs::get_chat_completion_max_tokens(model, messages)          *)
(*     = context_size.saturating_sub(num_tokens_from_messages(..)?)        *)
(* where num_tokens_from_messages adds the per-message tokens plus the     *)
(* tokens that prime the reply, and fails when the model has no chat       *)
(* tokenizer.                                                              *)
(*                                                                         *)
(* The search is indxvec's Search::binary_any on RangeInclusive:           *)
(*   let mut lo = *self.start(); let mut hi = *self.end();                 *)
(*   loop { let mid = lo + (hi - lo) / 2;                                  *)
(*          if mid > lo { match cmpr(mid) { Less => lo = mid,              *)
(*                                          Greater => hi = mid,           *)
(*                                          Equal => return (mid, lo..hi) }*)
(*          } else { return (hi, lo..hi) } }                               *)
(* so only indices strictly inside (start, end) are ever probed.           *)
(*                                                                         *)
(* debug_assert! is compiled in or out by the build profile; the profile   *)
(* is the variable debug_assertions, fixed by Init.                        *)
(***************************************************************************)
EXTENDS Integers, Sequences, FiniteSets, TLC

VARIABLES
    messages,          \* the caller's stored_messages (examples/chat.rs:17)
    model,             \* ChatSplitter.model
    max_tokens,        \* ChatSplitter.max_tokens
    max_messages,      \* ChatSplitter.max_messages
    debug_assertions,  \* build profile: are debug_assert!s compiled in
    status,            \* outcome of the latest split call: "none" | "ok" | "panic"
    why,               \* which panic ended the latest call ("" when none)
    arg,               \* the slice the latest split call was given
    resplit,           \* TRUE when arg was the recent part of the call before
    outdated,          \* first part returned by the latest call
    recent,            \* second part returned by the latest call
    probes,            \* evaluations of the search closure in the latest call
    calls,             \* estimator calls in the latest call (probes + post-condition)
    conversion         \* the latest message conversion: its receiver, method, input, output

vars == <<messages, model, max_tokens, max_messages, debug_assertions,
          status, why, arg, resplit, outdated, recent, probes, calls, conversion>>

config == <<model, max_tokens, max_messages, debug_assertions>>

---------------------------------------------------------------------------
(* Bounds of the model *)

\* longest stored log
MaxLen == 4
\* most prompt tokens a single message costs
MaxMsgTokens == 2
\* context size of the models, in tokens (scaled down)
ContextTokens == 9
\* longest store of the rounds of a chat (AppendSpec)
MaxRounds == 6

(* Program constants *)

MAX_MESSAGES_LIMIT == 2048

\* get_stored_messages() of the example stores this many user/assistant pairs
StoredPairs == 2000

\* tokens num_tokens_from_messages adds to prime the reply
ReplyPriming == 3

KnownModel == "gpt-3.5-turbo"
UnknownModel == "no-such-model"
Models == {KnownModel, UnknownModel}

Message == 1..MaxMsgTokens

\* values a caller hands to max_tokens() / max_messages()
TokenChoices == 0..(ContextTokens + 1)
MessageChoices == {0, 1, 2, MAX_MESSAGES_LIMIT + 1}

Min(a, b) == IF a <= b THEN a ELSE b

\* messages[n..]
SliceFrom(msgs, n) == SubSeq(msgs, n + 1, Len(msgs))

\* messages[..n]
SliceTo(msgs, n) == SubSeq(msgs, 1, n)

---------------------------------------------------------------------------
(* The estimator (tiktoken_rs) *)

get_context_size(m) == ContextTokens

tokenizer_available(m) == m = KnownModel

\* msgs[a] + ... + msgs[b], summed by halves to keep the evaluation shallow
RECURSIVE Sum(_, _, _)
Sum(msgs, a, b) ==
    IF a > b THEN 0
    ELSE IF a = b THEN msgs[a]
    ELSE LET h == (a + b) \div 2 IN Sum(msgs, a, h) + Sum(msgs, h + 1, b)

num_tokens_from_messages(msgs) == ReplyPriming + Sum(msgs, 1, Len(msgs))

\* Ok value of get_chat_completion_max_tokens; callers test tokenizer_available first
get_chat_completion_max_tokens(m, msgs) ==
    LET prompt_tokens == num_tokens_from_messages(msgs)
        context_size == get_context_size(m)
    IN  IF context_size >= prompt_tokens THEN context_size - prompt_tokens ELSE 0

---------------------------------------------------------------------------
(* ChatSplitter *)

Self == [model |-> model, max_tokens |-> max_tokens, max_messages |-> max_messages]

\* mutant: the limit itself is returned as the position, not len - limit
position_by_max_messages_returns_limit(s, msgs) ==
    LET upper_limit == Min(s.max_messages, MAX_MESSAGES_LIMIT)
        len == Len(msgs)
        n == IF len <= upper_limit THEN 0 ELSE upper_limit
    IN  [kind |-> "ok", why |-> "", n |-> n]

position_by_max_messages(s, msgs) ==
    LET upper_limit == Min(s.max_messages, MAX_MESSAGES_LIMIT)
        len == Len(msgs)
        n == IF len <= upper_limit THEN 0 ELSE len - upper_limit
    IN  IF debug_assertions /\ ~(Len(SliceFrom(msgs, n)) <= upper_limit)
        THEN [kind |-> "panic", why |-> "max_messages", n |-> n]
        ELSE [kind |-> "ok", why |-> "", n |-> n]

lower_limit(s) == Min(s.max_tokens, get_context_size(s.model))

\* mutant: the comparison is taken the other way round (limit.cmp(&tokens))
Closure_reversed(s, msgs, n) ==
    IF debug_assertions /\ ~(n < Len(msgs)) THEN "panic_index"
    ELSE IF ~tokenizer_available(s.model) THEN "panic_tokenizer"
    ELSE LET tokens == get_chat_completion_max_tokens(s.model, SliceFrom(msgs, n))
             cmp == IF lower_limit(s) < tokens THEN "Less"
                    ELSE IF lower_limit(s) > tokens THEN "Greater"
                    ELSE "Equal"
         IN  IF debug_assertions /\ cmp = "Equal" THEN "panic_equal" ELSE cmp

\* the closure handed to binary_any, at index n
Closure(s, msgs, n) ==
    IF debug_assertions /\ ~(n < Len(msgs)) THEN "panic_index"
    ELSE IF ~tokenizer_available(s.model) THEN "panic_tokenizer"
    ELSE LET tokens == get_chat_completion_max_tokens(s.model, SliceFrom(msgs, n))
             cmp == IF tokens < lower_limit(s) THEN "Less"
                    ELSE IF tokens > lower_limit(s) THEN "Greater"
                    ELSE "Equal"
         IN  IF debug_assertions /\ cmp = "Equal" THEN "panic_equal" ELSE cmp

\* mutant: the chop takes a quarter of the range, not half of it
RECURSIVE binary_any_quarter(_, _, _, _, _)
binary_any_quarter(lo, hi, s, msgs, k) ==
    LET step == (hi - lo) \div 4
        mid == IF hi - lo >= 2 THEN lo + (IF step >= 1 THEN step ELSE 1) ELSE lo
    IN  IF mid > lo
        THEN LET c == Closure(s, msgs, mid)
             IN  CASE c = "Less" -> binary_any_quarter(mid, hi, s, msgs, k + 1)
                   [] c = "Greater" -> binary_any_quarter(lo, mid, s, msgs, k + 1)
                   [] c = "Equal" -> [kind |-> "ok", why |-> "", n |-> mid,
                                      probes |-> k + 1,
                                      calls |-> k + 1]
                   [] c = "panic_index" -> [kind |-> "panic", why |-> "index", n |-> mid,
                                            probes |-> k + 1, calls |-> k]
                   [] c = "panic_tokenizer" -> [kind |-> "panic", why |-> "tokenizer",
                                                n |-> mid, probes |-> k + 1,
                                                calls |-> k + 1]
                   [] OTHER -> [kind |-> "panic", why |-> "equal", n |-> mid,
                                probes |-> k + 1, calls |-> k + 1]
        ELSE [kind |-> "ok", why |-> "", n |-> hi, probes |-> k, calls |-> k]

RECURSIVE binary_any(_, _, _, _, _)
binary_any(lo, hi, s, msgs, k) ==
    LET mid == lo + (hi - lo) \div 2
    IN  IF mid > lo
        THEN LET c == Closure(s, msgs, mid)
             IN  CASE c = "Less" -> binary_any(mid, hi, s, msgs, k + 1)
                   [] c = "Greater" -> binary_any(lo, mid, s, msgs, k + 1)
                   [] c = "Equal" -> [kind |-> "ok", why |-> "", n |-> mid,
                                      probes |-> k + 1,
                                      calls |-> k + 1]
                   [] c = "panic_index" -> [kind |-> "panic", why |-> "index", n |-> mid,
                                            probes |-> k + 1, calls |-> k]
                   [] c = "panic_tokenizer" -> [kind |-> "panic", why |-> "tokenizer",
                                                n |-> mid, probes |-> k + 1,
                                                calls |-> k + 1]
                   [] OTHER -> [kind |-> "panic", why |-> "equal", n |-> mid,
                                probes |-> k + 1, calls |-> k + 1]
        ELSE [kind |-> "ok", why |-> "", n |-> hi, probes |-> k, calls |-> k]

\* mutant: the search never returns the end of the range, so the last
\* message is kept even when nothing fits, and the post-condition is skipped
position_by_max_tokens_keeps_last(s, msgs) ==
    LET r == binary_any(0, Len(msgs), s, msgs, 0)
    IN  IF r.kind = "ok" /\ r.n = Len(msgs) /\ Len(msgs) > 0
        THEN [r EXCEPT !.n = Len(msgs) - 1]
        ELSE r

position_by_max_tokens(s, msgs) ==
    LET r == binary_any(0, Len(msgs), s, msgs, 0)
    IN  IF r.kind = "panic" \/ ~debug_assertions THEN r
        ELSE IF ~tokenizer_available(s.model)
        THEN [r EXCEPT !.kind = "panic", !.why = "tokenizer", !.calls = r.calls + 1]
        ELSE IF get_chat_completion_max_tokens(s.model, SliceFrom(msgs, r.n))
                    >= lower_limit(s)
        THEN [r EXCEPT !.calls = r.calls + 1]
        ELSE [r EXCEPT !.kind = "panic", !.why = "postcondition",
                       !.calls = r.calls + 1]

position(s, msgs) ==
    LET a == position_by_max_messages(s, msgs)
    IN  IF a.kind = "panic"
        THEN [kind |-> "panic", why |-> a.why, n |-> a.n, probes |-> 0, calls |-> 0]
        ELSE LET b == position_by_max_tokens(s, SliceFrom(msgs, a.n))
             IN  [b EXCEPT !.n = a.n + b.n]

\* mutant: the second part starts one message after the position
split_skips_one(s, msgs) ==
    LET p == position(s, msgs)
    IN  IF p.kind = "panic"
        THEN [status |-> "panic", why |-> p.why, outdated |-> << >>, recent |-> << >>,
              probes |-> p.probes, calls |-> p.calls]
        ELSE [status |-> "ok", why |-> "", outdated |-> SliceTo(msgs, p.n),
              recent |-> SliceFrom(msgs, Min(p.n + 1, Len(msgs))),
              probes |-> p.probes, calls |-> p.calls]

split(s, msgs) ==
    LET p == position(s, msgs)
    IN  IF p.kind = "panic"
        THEN [status |-> "panic", why |-> p.why, outdated |-> << >>, recent |-> << >>,
              probes |-> p.probes, calls |-> p.calls]
        ELSE [status |-> "ok", why |-> "", outdated |-> SliceTo(msgs, p.n),
              recent |-> SliceFrom(msgs, p.n), probes |-> p.probes, calls |-> p.calls]

---------------------------------------------------------------------------
(* IntoChatCompletionRequestMessage: the message conversions *)

\* async_openai::types::Role
Role == {"User", "System", "Assistant", "Function", "Tool"}

\* Role's Display, used by role.to_string()
Role_to_string(r) ==
    CASE r = "User" -> "user"
      [] r = "System" -> "system"
      [] r = "Assistant" -> "assistant"
      [] r = "Function" -> "function"
      [] r = "Tool" -> "tool"

\* the role strings both representations support
SupportedRoles == {"user", "system", "assistant", "function"}

\* role strings a tiktoken_rs message can carry (its role is a String)
RoleStrings == SupportedRoles \cup {"tool", "moderator"}

\* Option<_>, by its discriminant
Option == {"None", "Some"}

\* tiktoken_rs::ChatCompletionRequestMessage
TiktokenMessage ==
    [role : RoleStrings, content : Option, name : Option, function_call : Option]

\* async_openai::types::ChatCompletionRequestMessage, one record set per variant;
\* every variant's struct carries its own role field
AsyncOpenaiMessage ==
    [variant : {"User"}, role : Role, content : {"Text", "EmptyArray", "Array"},
     name : Option, function_call : {"None"}]
    \cup [variant : {"System"}, role : Role, content : {"Some"},
          name : Option, function_call : {"None"}]
    \cup [variant : {"Assistant"}, role : Role, content : Option,
          name : Option, function_call : Option]
    \cup [variant : {"Function"}, role : Role, content : Option,
          name : {"Some"}, function_call : {"None"}]
    \cup [variant : {"Tool"}, role : Role, content : {"Some"},
          name : {"None"}, function_call : {"None"}]

\* async_openai::types::ChatCompletionResponseMessage
ResponseMessage == [role : Role, content : Option, function_call : Option]

Panic(msg) == [panic |-> msg]

\* the match on self.role.as_ref() that fills the role field
role_from_str(r) ==
    CASE r = "user" -> "User"
      [] r = "system" -> "System"
      [] r = "assistant" -> "Assistant"
      [] r = "function" -> "Function"
      [] OTHER -> "panic"

tiktoken_rs_into_tiktoken_rs(m) == m

tiktoken_rs_into_async_openai(m) ==
    IF m.role \notin SupportedRoles \/ role_from_str(m.role) = "panic"
    THEN Panic("unsupported role")
    ELSE CASE m.role = "user" ->
                [variant |-> "User", role |-> role_from_str(m.role),
                 content |-> IF m.content = "Some" THEN "Text" ELSE "EmptyArray",
                 name |-> m.name, function_call |-> "None"]
           [] m.role = "system" ->
                IF m.content = "None"
                THEN Panic("system message content should be valid")
                ELSE [variant |-> "System", role |-> role_from_str(m.role),
                      content |-> "Some", name |-> m.name, function_call |-> "None"]
           [] m.role = "assistant" ->
                [variant |-> "Assistant", role |-> role_from_str(m.role),
                 content |-> m.content, name |-> m.name,
                 function_call |-> m.function_call]
           [] m.role = "function" ->
                IF m.name = "None"
                THEN Panic("function message name should be valid")
                ELSE [variant |-> "Function", role |-> role_from_str(m.role),
                      content |-> m.content, name |-> "Some", function_call |-> "None"]

async_openai_into_tiktoken_rs(m) ==
    CASE m.variant = "User" ->
            IF m.content = "Array"
            THEN Panic("unsupported user message content")
            ELSE [role |-> Role_to_string(m.role),
                  content |-> IF m.content = "Text" THEN "Some" ELSE "None",
                  function_call |-> "None", name |-> m.name]
      [] m.variant = "System" ->
            [role |-> Role_to_string(m.role), content |-> "Some",
             function_call |-> "None", name |-> m.name]
      [] m.variant = "Assistant" ->
            [role |-> Role_to_string(m.role), content |-> m.content,
             function_call |-> m.function_call, name |-> m.name]
      [] m.variant = "Function" ->
            [role |-> Role_to_string(m.role), content |-> m.content,
             function_call |-> "None", name |-> "Some"]
      [] m.variant = "Tool" -> Panic("unsupported role")

async_openai_into_async_openai(m) == m

response_into_tiktoken_rs(m) ==
    [role |-> Role_to_string(m.role), content |-> m.content,
     function_call |-> m.function_call, name |-> "None"]

response_into_async_openai(m) ==
    CASE m.role = "User" ->
            [variant |-> "User", role |-> m.role,
             content |-> IF m.content = "Some" THEN "Text" ELSE "EmptyArray",
             name |-> "None", function_call |-> "None"]
      [] m.role = "System" ->
            IF m.content = "None"
            THEN Panic("system message content should be valid")
            ELSE [variant |-> "System", role |-> m.role, content |-> "Some",
                  name |-> "None", function_call |-> "None"]
      [] m.role = "Assistant" ->
            [variant |-> "Assistant", role |-> m.role, content |-> m.content,
             name |-> "None", function_call |-> m.function_call]
      [] m.role = "Function" ->
            IF m.function_call = "None"
            THEN Panic("function message function call should be valid")
            ELSE [variant |-> "Function", role |-> m.role, content |-> m.content,
                  name |-> "Some", function_call |-> "None"]
      [] m.role = "Tool" -> Panic("unsupported role")

Methods == {"into_tiktoken_rs", "into_async_openai"}

NoConversion == [from |-> "none"]

---------------------------------------------------------------------------
(* The state machine *)

NoResult ==
    /\ status' = "none"
    /\ why' = ""
    /\ arg' = << >>
    /\ resplit' = FALSE
    /\ outdated' = << >>
    /\ recent' = << >>
    /\ probes' = 0
    /\ calls' = 0

\* ChatSplitter::default(), either build profile, an empty store
Init ==
    /\ messages = << >>
    /\ model = KnownModel
    /\ max_tokens = get_context_size(model) \div 2
    /\ max_messages = MAX_MESSAGES_LIMIT \div 2
    /\ debug_assertions \in BOOLEAN
    /\ status = "none"
    /\ why = ""
    /\ arg = << >>
    /\ resplit = FALSE
    /\ outdated = << >>
    /\ recent = << >>
    /\ probes = 0
    /\ calls = 0
    /\ conversion = NoConversion

\* builder: .max_messages(k)
SetMaxMessages ==
    /\ \E k \in MessageChoices : max_messages' = k
    /\ NoResult
    /\ UNCHANGED <<messages, model, max_tokens, debug_assertions, conversion>>

\* builder: .max_tokens(t)
SetMaxTokens ==
    /\ \E t \in TokenChoices : max_tokens' = t
    /\ NoResult
    /\ UNCHANGED <<messages, model, max_messages, debug_assertions, conversion>>

\* builder: .model(m)
SetModel ==
    /\ \E m \in Models : model' = m
    /\ NoResult
    /\ UNCHANGED <<messages, max_tokens, max_messages, debug_assertions, conversion>>

\* get_stored_messages(): StoredPairs pairs of a user and an assistant message
GetStoredMessages ==
    /\ messages = << >>
    /\ messages' = [i \in 1..(2 * StoredPairs) |-> IF i % 2 = 1 THEN 1 ELSE MaxMsgTokens]
    /\ NoResult
    /\ UNCHANGED <<config, conversion>>

\* the caller appends a message to the store; the borrowed parts end with it
Push ==
    /\ Len(messages) < MaxLen
    /\ \E m \in Message : messages' = Append(messages, m)
    /\ NoResult
    /\ UNCHANGED <<config, conversion>>

Record(r, msgs, again) ==
    /\ status' = r.status
    /\ why' = r.why
    /\ arg' = msgs
    /\ resplit' = again
    /\ outdated' = r.outdated
    /\ recent' = r.recent
    /\ probes' = r.probes
    /\ calls' = r.calls

\* splitter.split(&stored_messages)
Split ==
    /\ Record(split(Self, messages), messages, FALSE)
    /\ UNCHANGED <<messages, config, conversion>>

\* splitter.split(recent) on the recent part just returned
SplitRecent ==
    /\ status = "ok"
    /\ ~resplit
    /\ Record(split(Self, recent), recent, TRUE)
    /\ UNCHANGED <<messages, config, conversion>>

Next ==
    \/ GetStoredMessages
    \/ SetMaxMessages
    \/ SetMaxTokens
    \/ SetModel
    \/ Push
    \/ Split
    \/ SplitRecent

Spec == Init /\ [][Next]_vars

splitter == <<messages, config, status, why, arg, resplit, outdated, recent,
              probes, calls>>

\* a tiktoken_rs message is converted
ConvertTiktokenRs ==
    /\ \E m \in TiktokenMessage, f \in Methods :
          conversion' = [from |-> "tiktoken_rs", method |-> f, input |-> m,
                         output |-> IF f = "into_tiktoken_rs"
                                    THEN tiktoken_rs_into_tiktoken_rs(m)
                                    ELSE tiktoken_rs_into_async_openai(m)]
    /\ UNCHANGED splitter

\* an async_openai request message is converted
ConvertAsyncOpenai ==
    /\ \E m \in AsyncOpenaiMessage, f \in Methods :
          conversion' = [from |-> "async_openai", method |-> f, input |-> m,
                         output |-> IF f = "into_tiktoken_rs"
                                    THEN async_openai_into_tiktoken_rs(m)
                                    ELSE async_openai_into_async_openai(m)]
    /\ UNCHANGED splitter

\* an async_openai response message is converted (examples/chat.rs:54)
ConvertResponse ==
    /\ \E m \in ResponseMessage, f \in Methods :
          conversion' = [from |-> "response", method |-> f, input |-> m,
                         output |-> IF f = "into_tiktoken_rs"
                                    THEN response_into_tiktoken_rs(m)
                                    ELSE response_into_async_openai(m)]
    /\ UNCHANGED splitter

ConvNext ==
    \/ ConvertTiktokenRs
    \/ ConvertAsyncOpenai
    \/ ConvertResponse

\* the conversions alone, applied to every message of each representation
ConvSpec == Init /\ [][ConvNext]_vars

\* a splitter built once: ChatSplitter::new(model).max_tokens(t).max_messages(k)
\* (examples/chat.rs:26-28), an empty store
AppendInit ==
    /\ messages = << >>
    /\ model = KnownModel
    /\ max_tokens \in TokenChoices
    /\ max_messages \in MessageChoices
    /\ debug_assertions \in BOOLEAN
    /\ status = "none"
    /\ why = ""
    /\ arg = << >>
    /\ resplit = FALSE
    /\ outdated = << >>
    /\ recent = << >>
    /\ probes = 0
    /\ calls = 0
    /\ conversion = NoConversion

\* a round of the chat appends a message to the store (examples/chat.rs:18, 54)
PushRound ==
    /\ Len(messages) < MaxRounds
    /\ \E m \in Message : messages' = Append(messages, m)
    /\ NoResult
    /\ UNCHANGED <<config, conversion>>

AppendNext ==
    \/ PushRound
    \/ Split

\* rounds of a chat under one fixed configuration: the store only grows and
\* is split between the rounds
AppendSpec == AppendInit /\ [][AppendNext]_vars

---------------------------------------------------------------------------
(* Properties *)

\* the estimate of a slice under the configured model
estimate(msgs) == get_chat_completion_max_tokens(model, msgs)

\* a split call has been made and has returned its pair
Returned == status = "ok"

\* the slice the message-count stage hands to the token stage in the latest call
Window == SliceFrom(arg, position_by_max_messages(Self, arg).n)

\* indices of a slice whose suffix leaves at least the limit
Fitting(msgs) ==
    {n \in 0..Len(msgs) : estimate(SliceFrom(msgs, n)) >= lower_limit(Self)}

Smallest(S) == CHOOSE n \in S : \A m \in S : n <= m

\* C1: every pair split returns is a cut of its argument at one index:
\* outdated ++ recent = messages, with outdated = messages[..j] and
\* recent = messages[j..] for the index j = len(outdated), 0 <= j <= len.
C1_Concatenation ==
    Returned =>
        /\ outdated \o recent = arg
        /\ Len(outdated) \in 0..Len(arg)
        /\ outdated = SliceTo(arg, Len(outdated))
        /\ recent = SliceFrom(arg, Len(outdated))

C1_Witness ==
    /\ Returned
    /\ Len(outdated) >= 2
    /\ Len(recent) >= 2
    /\ outdated # recent

\* C2: the recent part has at most min(max_messages, MAX_MESSAGES_LIMIT)
\* messages, and the token stage never lengthens the window the
\* message-count stage chose.
C2_MaxMessages ==
    Returned =>
        /\ Len(recent) <= Min(max_messages, MAX_MESSAGES_LIMIT)
        /\ Len(recent) <= Len(Window)

C2_Witness ==
    /\ Returned
    /\ max_messages > MAX_MESSAGES_LIMIT
    /\ Len(arg) > max_messages
    /\ Len(Window) = MAX_MESSAGES_LIMIT
    /\ Len(recent) > Len(SliceFrom(arg, Len(arg) - 1))

\* C3: a returned recent part of two or more messages leaves at least
\* max_tokens tokens for the completion.
C3_TokenBound ==
    (Returned /\ Len(recent) >= 2) =>
        /\ tokenizer_available(model)
        /\ estimate(recent) >= max_tokens

C3_Witness ==
    /\ Returned
    /\ Len(recent) >= 2
    /\ Len(outdated) >= 2
    /\ max_messages > Len(arg)
    /\ estimate(recent) >= max_tokens
    /\ estimate(SliceFrom(arg, 1)) < max_tokens

\* C4: on every return of the token stage the returned suffix leaves at
\* least the limit, and the post-condition assertion never fails.
C4_PostCondition ==
    /\ (status = "panic" => why # "postcondition")
    /\ (Returned /\ tokenizer_available(model)) =>
           estimate(recent) >= lower_limit(Self)

\* C5: on a non-empty slice the token stage returns the smallest index
\* whose suffix leaves at least the limit.
C5_SmallestIndex ==
    (status # "none" /\ tokenizer_available(model) /\ Window # << >>
        /\ Fitting(Window) # {}) =>
        /\ Returned
        /\ Len(recent) = Len(Window) - Smallest(Fitting(Window))

\* C6: when the window chosen by the message-count stage already leaves
\* max_tokens tokens, split returns exactly that window as recent and the
\* messages before it as outdated; the window is the last
\* min(len, min(max_messages, MAX_MESSAGES_LIMIT)) messages.
C6_CountStageOnly ==
    (status # "none" /\ tokenizer_available(model)
        /\ estimate(Window) >= max_tokens) =>
        /\ Len(Window) = Min(Len(arg), Min(max_messages, MAX_MESSAGES_LIMIT))
        /\ Returned
        /\ recent = Window
        /\ outdated = SliceTo(arg, Len(arg) - Len(Window))

\* C7: splitting the recent part of a split again, under the same
\* configuration, returns (empty, recent).
C7_Idempotence ==
    resplit =>
        /\ Returned
        /\ outdated = << >>
        /\ recent = arg

\* C8: for an empty log (and a model the tokenizer supports) split returns
\* two empty parts and the search closure is never evaluated.
C8_EmptyLog ==
    (status # "none" /\ arg = << >> /\ tokenizer_available(model)) =>
        /\ Returned
        /\ outdated = << >>
        /\ recent = << >>
        /\ probes = 0

\* the latest call was given a non-empty log, with max_messages >= 1 and a
\* supported model, whose last message alone leaves less than max_tokens
LastMessageOverBudget ==
    /\ status # "none"
    /\ arg # << >>
    /\ max_messages >= 1
    /\ tokenizer_available(model)
    /\ estimate(SliceFrom(arg, Len(arg) - 1)) < max_tokens

\* C9 as stated: when even the last message alone does not leave the
\* budget, split returns a recent part holding exactly that last message.
C9_LastMessageKept ==
    LastMessageOverBudget =>
        /\ Returned
        /\ recent = SliceFrom(arg, Len(arg) - 1)
        /\ Len(recent) = 1

\* C9 amended: when even the last message alone does not leave the budget,
\* every probe compares Less and the search returns n = len: split returns
\* an empty recent part and the whole log as outdated; the only other
\* outcome is the post-condition panic of a build with debug assertions,
\* taken exactly when the empty suffix leaves less than the limit too.
C9_LastMessageDropped ==
    LastMessageOverBudget =>
        /\ Returned => (recent = << >> /\ outdated = arg)
        /\ ~Returned =>
               /\ why = "postcondition"
               /\ debug_assertions
               /\ estimate(<< >>) < lower_limit(Self)
        /\ (debug_assertions /\ estimate(<< >>) < lower_limit(Self)) => ~Returned

C9_Witness ==
    /\ LastMessageOverBudget
    /\ Returned
    /\ Len(arg) >= 3
    /\ max_messages > Len(arg)
    /\ recent = << >>
    /\ outdated = arg

\* C10: with a model the tokenizer does not know, every split call fails
\* with the tokenizer panic, at its first estimator call.
C10_UnknownModelFails ==
    (status # "none" /\ ~tokenizer_available(model)) =>
        /\ status = "panic"
        /\ why = "tokenizer"
        /\ calls = 1

\* the latest conversion went from one representation to the other
Crossed ==
    /\ conversion.from # "none"
    /\ ~(conversion.from = "tiktoken_rs" /\ conversion.method = "into_tiktoken_rs")
    /\ ~(conversion.from = "async_openai" /\ conversion.method = "into_async_openai")

\* the role of the converted message; a request message counts when its
\* variant and its role field name the same role
InputRole ==
    IF conversion.from = "tiktoken_rs" THEN conversion.input.role
    ELSE Role_to_string(conversion.input.role)

InputWellFormed ==
    conversion.from = "async_openai" =>
        conversion.input.variant = conversion.input.role

ConversionPanicked == "panic" \in DOMAIN conversion.output

\* the role of the produced message
OutputRole ==
    IF conversion.method = "into_tiktoken_rs" THEN conversion.output.role
    ELSE Role_to_string(conversion.output.role)

\* C11: a conversion to the other representation keeps each supported role
\* (user, system, assistant, function) and panics on every other role.
C11_RoleMapping ==
    (Crossed /\ InputWellFormed) =>
        IF InputRole \in SupportedRoles
        THEN ~ConversionPanicked =>
                /\ OutputRole = InputRole
                /\ conversion.method = "into_async_openai" =>
                       conversion.output.variant = conversion.output.role
        ELSE ConversionPanicked

\* smallest k with 2^k >= n, for n >= 1
RECURSIVE CeilLog2(_)
CeilLog2(n) == IF n <= 1 THEN 0 ELSE 1 + CeilLog2((n + 1) \div 2)

\* C12: every split call ends, and the search evaluates its closure at most
\* ceil(log2(len + 1)) + 1 times on a slice of len messages.
C12_LogarithmicProbes ==
    status # "none" =>
        /\ status \in {"ok", "panic"}
        /\ probes <= CeilLog2(Len(Window) + 1) + 1

C12_Witness ==
    /\ Returned
    /\ Len(Window) = MAX_MESSAGES_LIMIT
    /\ probes >= CeilLog2(Len(Window)) - 1
    /\ probes < Len(Window) \div 16

\* the step appends one or more messages to the store, configuration kept
Appended ==
    /\ Len(messages') > Len(messages)
    /\ SliceTo(messages', Len(messages)) = messages
    /\ UNCHANGED config

\* C13: under a fixed configuration the split position never moves back
\* when messages are appended: a message once outdated is never recent again.
C13_MonotonePosition ==
    [][(/\ Appended
        /\ position(Self, messages).kind = "ok"
        /\ position(Self', messages').kind = "ok")
       => position(Self', messages').n >= position(Self, messages).n]_vars

=============================================================================
